---- MODULE Spec2Model ----
(***************************************************************************)
(* A model of the Minesweeper decision engine of src/src/solver.py (with   *)
(* the neighbour geometry of src/src/board_manager.py and the constants of *)
(* src/src/config.py).  A board is a function from coordinates <<r, c>>    *)
(* (0-indexed) to cell-state strings; a move is <<coordinate, action>>; a  *)
(* probability is an exact fraction [num, den] standing for the float      *)
(* num / den.                                                              *)
(***************************************************************************)
EXTENDS Integers, Sequences, FiniteSets, TLC

VARIABLES
    board,          \* the np.ndarray handed to the function under call
    rows,           \* board.shape[0]
    cols,           \* board.shape[1]
    iterOrder,      \* the iteration order this run's sets of coordinates have
    constraints,    \* argument of enumerate_valid_configurations
    max_iterations, \* argument of enumerate_valid_configurations
    pc,             \* position: which function is under call / has returned
    phase,          \* the last phase solve ran
    moves,          \* list returned by apply_logic_rules / solve
    probabilities,  \* dict returned by calculate_probabilities (insertion order)
    valid_configs,  \* list returned by enumerate_valid_configurations
    examined,       \* candidates the enumeration loop examined before returning
    arrays,         \* the caller's arrays, by name: what each holds now
    self_board,     \* MinesweeperSolver.board: "None" or the array it refers to
    calls,          \* the calls made on the solver so far, in order
    call,           \* a direct call of get_neighbors: its arguments and outcome
    bot             \* the fields of MinesweeperBot and the position of run

vars == <<board, rows, cols, iterOrder, constraints, max_iterations, pc,
          phase, moves, probabilities, valid_configs, examined,
          arrays, self_board, calls, call, bot>>

----------------------------------------------------------------------------
(* Bounds of the model.                                                    *)

\* Boards of every shape with at most MaxCells cells are drawn with every
\* cell state of CellStates.
MaxCells == 4
\* The digits "1" .. MaxNumber appear on drawn boards.
MaxNumber == 2
\* On a preset-size board the first MaxPatch cells (row-major) are arbitrary.
MaxPatch == 2
\* Constraints handed directly to the enumerator range over MaxEnumCells cells.
MaxEnumCells == 3
\* Budgets handed directly to the enumerator are 1 .. MaxBudget.
MaxBudget == 3

----------------------------------------------------------------------------
(* config.py                                                               *)

STATE_COVERED == "covered"
STATE_UNCOVERED == "uncovered"
STATE_FLAGGED == "flagged"
STATE_MINE == "mine"
STATE_UNKNOWN == "unknown"
MAX_CONFIGURATIONS == 10000
ENABLE_LOGIC_RULES == TRUE
ENABLE_PROBABILITY_CALCULATION == TRUE

----------------------------------------------------------------------------
(* Strings.  TLC's strings are atomic, so the characters of every string   *)
(* the model uses are tabulated; str.isdigit and int are computed from the *)
(* characters.                                                             *)

DigitChars == {"0", "1", "2", "3", "4", "5", "6", "7", "8", "9"}

DigitValue(ch) ==
    CASE ch = "0" -> 0 [] ch = "1" -> 1 [] ch = "2" -> 2 [] ch = "3" -> 3
      [] ch = "4" -> 4 [] ch = "5" -> 5 [] ch = "6" -> 6 [] ch = "7" -> 7
      [] ch = "8" -> 8 [] ch = "9" -> 9

Chars(s) ==
    CASE s = "covered"   -> <<"c", "o", "v", "e", "r", "e", "d">>
      [] s = "uncovered" -> <<"u", "n", "c", "o", "v", "e", "r", "e", "d">>
      [] s = "flagged"   -> <<"f", "l", "a", "g", "g", "e", "d">>
      [] s = "mine"      -> <<"m", "i", "n", "e">>
      [] s = "unknown"   -> <<"u", "n", "k", "n", "o", "w", "n">>
      [] s = ""          -> <<>>
      [] s = "00"        -> <<"0", "0">>
      [] s = "12"        -> <<"1", "2">>
      [] s \in DigitChars -> <<s>>

\* str.isdigit(): non-empty and every character a digit.
isdigit(s) ==
    /\ Len(Chars(s)) > 0
    /\ \A i \in 1..Len(Chars(s)) : Chars(s)[i] \in DigitChars

RECURSIVE DecimalValue(_)
DecimalValue(chars) ==
    IF chars = <<>> THEN 0
    ELSE 10 * DecimalValue(SubSeq(chars, 1, Len(chars) - 1))
         + DigitValue(chars[Len(chars)])

\* int(s) of a string of digits.
int(s) == DecimalValue(Chars(s))

\* The string str(n) of a one-digit number.
DigitString(n) ==
    CASE n = 0 -> "0" [] n = 1 -> "1" [] n = 2 -> "2" [] n = 3 -> "3"
      [] n = 4 -> "4" [] n = 5 -> "5" [] n = 6 -> "6" [] n = 7 -> "7"
      [] n = 8 -> "8" [] n = 9 -> "9"

----------------------------------------------------------------------------
(* Coordinates, and the iteration order of Python sets of coordinates.     *)

Coordinates(R, C) == (0..(R - 1)) \X (0..(C - 1))

\* Row-major order, the order of the nested range() loops.
RowMajorLess(a, b) == a[1] < b[1] \/ (a[1] = b[1] /\ a[2] < b[2])

RECURSIVE RowMajor(_)
RowMajor(S) ==
    IF S = {} THEN <<>>
    ELSE LET first == CHOOSE a \in S : \A b \in S \ {a} : RowMajorLess(a, b)
         IN  <<first>> \o RowMajor(S \ {first})

\* The coordinates of an R x C array in the order of the nested loops
\* "for row in range(R): for col in range(C)".
RowMajorCells(R, C) == [i \in 1..(R * C) |-> <<(i - 1) \div C, (i - 1) % C>>]

Reverse(s) == [i \in 1..Len(s) |-> s[Len(s) + 1 - i]]

\* Iterating a set of tuples follows the hash table's slot order, which the
\* language leaves open: the model lets a run have one of IterOrders.
IterOrders == {"asc", "desc", "rotated"}

SetIter(S, order) ==
    IF order = "asc" THEN RowMajor(S)
    ELSE IF order = "desc" THEN Reverse(RowMajor(S))
    ELSE IF S = {} THEN <<>>
    ELSE Tail(RowMajor(S)) \o <<Head(RowMajor(S))>>

----------------------------------------------------------------------------
(* board_manager.py                                                        *)

\* The guard of get_neighbors in a faulty variant that lets negative
\* indices through.
get_neighbors_raises_past_end(R, C, row, col) ==
    ~(row < R /\ col < C)

\* The guard of get_neighbors: TRUE when it raises ValueError.
get_neighbors_raises(R, C, row, col) ==
    ~(0 <= row /\ row < R /\ 0 <= col /\ col < C)

\* get_neighbors in a faulty variant that leaves out the diagonals.
get_neighbors_orthogonal(R, C, row, col) ==
    { n \in { <<row + dr, col + dc>> : dr \in {-1, 0, 1}, dc \in {-1, 0, 1} } :
        /\ (n[1] = row) # (n[2] = col)
        /\ 0 <= n[1] /\ n[1] < R /\ 0 <= n[2] /\ n[2] < C }

\* The set get_neighbors builds when it does not raise.
get_neighbors(R, C, row, col) ==
    { n \in { <<row + dr, col + dc>> : dr \in {-1, 0, 1}, dc \in {-1, 0, 1} } :
        /\ ~(n[1] = row /\ n[2] = col)
        /\ 0 <= n[1] /\ n[1] < R /\ 0 <= n[2] /\ n[2] < C }

----------------------------------------------------------------------------
(* solver.py: cell predicates                                              *)

is_numbered_cell(cell_state) == isdigit(cell_state) /\ cell_state # "0"

get_cell_value(cell_state) ==
    IF is_numbered_cell(cell_state) THEN int(cell_state) ELSE 0

\* Row-major list of the numbered cells.
get_numbered_cells(b, R, C) ==
    SelectSeq(RowMajorCells(R, C), LAMBDA x : is_numbered_cell(b[x]))

\* The Covered neighbours in a faulty variant that takes the Flagged ones
\* with them.
get_unrevealed_neighbors_with_flagged(b, R, C, row, col) ==
    { n \in get_neighbors(R, C, row, col) : b[n] \in {STATE_COVERED, STATE_FLAGGED} }

get_unrevealed_neighbors(b, R, C, row, col) ==
    { n \in get_neighbors(R, C, row, col) : b[n] = STATE_COVERED }

get_flagged_neighbors(b, R, C, row, col) ==
    { n \in get_neighbors(R, C, row, col) : b[n] = STATE_FLAGGED }

----------------------------------------------------------------------------
(* solver.py: apply_logic_rules                                            *)

\* [cell, action] for every cell of the set, in the set's iteration order.
MovesOver(S, action, order) ==
    [i \in 1..Cardinality(S) |-> <<SetIter(S, order)[i], action>>]

\* Rule 1 (saturation): a faulty variant that forgets the flags already placed.
rule1_ignores_flags(number, unrevealed, flagged) ==
    Cardinality(unrevealed) = number

\* Rule 1: if unrevealed + flagged == number, all unrevealed are mines.
rule1_fires(number, unrevealed, flagged) ==
    Cardinality(unrevealed) + Cardinality(flagged) = number

\* Rule 2 (exhaustion): a faulty variant that fires once the flags reach or
\* pass the number.
rule2_at_least(number, unrevealed, flagged) ==
    Cardinality(flagged) >= number

\* Rule 2: if flagged == number, all unrevealed are safe.
rule2_fires(number, unrevealed, flagged) ==
    Cardinality(flagged) = number

\* One iteration of the loop over the numbered cells: the moves appended.
logic_moves_of(b, R, C, order, r, c) ==
    LET number     == get_cell_value(b[<<r, c>>])
        unrevealed == get_unrevealed_neighbors(b, R, C, r, c)
        flagged    == get_flagged_neighbors(b, R, C, r, c)
    IN  (IF rule1_fires(number, unrevealed, flagged)
            THEN MovesOver(unrevealed, "flag", order) ELSE <<>>)
        \o
        (IF rule2_fires(number, unrevealed, flagged)
            THEN MovesOver(unrevealed, "reveal", order) ELSE <<>>)

RECURSIVE logic_loop(_, _, _, _, _)
logic_loop(b, R, C, order, numbered) ==
    IF numbered = <<>> THEN <<>>
    ELSE logic_moves_of(b, R, C, order, Head(numbered)[1], Head(numbered)[2])
         \o logic_loop(b, R, C, order, Tail(numbered))

apply_logic_rules(b, R, C, order) ==
    logic_loop(b, R, C, order, get_numbered_cells(b, R, C))

----------------------------------------------------------------------------
(* solver.py: build_constraint_set                                         *)

Constraint(cells, required) == [cells |-> cells, required |-> required]

\* The loop of build_constraint_set in a faulty variant that drops a
\* constraint equal to a later one.
RECURSIVE constraint_loop_distinct(_, _, _, _)
constraint_loop_distinct(b, R, C, numbered) ==
    IF numbered = <<>> THEN <<>>
    ELSE LET r          == Head(numbered)[1]
             c          == Head(numbered)[2]
             number     == get_cell_value(b[<<r, c>>])
             unrevealed == get_unrevealed_neighbors(b, R, C, r, c)
             rest       == constraint_loop_distinct(b, R, C, Tail(numbered))
         IN  IF unrevealed # {}
                /\ \A i \in 1..Len(rest) : rest[i] # Constraint(unrevealed, number)
                THEN <<Constraint(unrevealed, number)>> \o rest
                ELSE rest

RECURSIVE constraint_loop(_, _, _, _)
constraint_loop(b, R, C, numbered) ==
    IF numbered = <<>> THEN <<>>
    ELSE LET r          == Head(numbered)[1]
             c          == Head(numbered)[2]
             number     == get_cell_value(b[<<r, c>>])
             unrevealed == get_unrevealed_neighbors(b, R, C, r, c)
         IN  (IF unrevealed # {} THEN <<Constraint(unrevealed, number)>> ELSE <<>>)
             \o constraint_loop(b, R, C, Tail(numbered))

build_constraint_set(b, R, C) ==
    constraint_loop(b, R, C, get_numbered_cells(b, R, C))

----------------------------------------------------------------------------
(* solver.py: enumerate_valid_configurations                               *)

\* all_cells: the union of the constraints' cell sets.
all_cells_of(cons) == UNION { cons[i].cells : i \in 1..Len(cons) }

\* itertools.combinations(pool, k): the k-element subsequences of pool, in
\* lexicographic order of their positions.
RECURSIVE combinations(_, _)
combinations(pool, k) ==
    IF k = 0 THEN << <<>> >>
    ELSE IF Len(pool) < k THEN <<>>
    ELSE LET withHead == combinations(Tail(pool), k - 1)
         IN  [i \in 1..Len(withHead) |-> <<Head(pool)>> \o withHead[i]]
             \o combinations(Tail(pool), k)

\* The candidates in the order the two nested loops visit them:
\* num_mines = 0, 1, ..., len(all_cells), and within each the combinations.
RECURSIVE candidates_from(_, _)
candidates_from(pool, num_mines) ==
    IF num_mines > Len(pool) THEN <<>>
    ELSE combinations(pool, num_mines) \o candidates_from(pool, num_mines + 1)

SeqToSet(s) == { s[i] : i \in 1..Len(s) }

\* The inner check, in a faulty variant that accepts too few mines.
satisfies_at_most(mine_set, cons) ==
    \A i \in 1..Len(cons) :
        Cardinality(mine_set \cap cons[i].cells) <= cons[i].required

\* The inner check: every constraint holds of the candidate mine set.
satisfies_all(mine_set, cons) ==
    \A i \in 1..Len(cons) :
        Cardinality(mine_set \cap cons[i].cells) = cons[i].required

\* The budget test, made only when a configuration was just recorded and
\* comparing with > : a faulty variant.
budget_off_by_one(n_valid, max_iter) == n_valid > max_iter

\* if len(valid_configs) >= max_iterations: return
budget_reached(n_valid, max_iter) == n_valid >= max_iter

\* The loop body from the i-th candidate on; acc is valid_configs so far.
RECURSIVE enumerate_loop(_, _, _, _, _)
enumerate_loop(cands, i, cons, max_iter, acc) ==
    IF i > Len(cands) THEN [configs |-> acc, examined |-> Len(cands)]
    ELSE LET mine_set == SeqToSet(cands[i])
             acc2     == IF satisfies_all(mine_set, cons)
                            THEN Append(acc, mine_set) ELSE acc
         IN  IF budget_reached(Len(acc2), max_iter)
                THEN [configs |-> acc2, examined |-> i]
                ELSE enumerate_loop(cands, i + 1, cons, max_iter, acc2)

\* A faulty variant that takes the candidates largest-first.
enumerate_descending(cons, max_iter, order) ==
    IF all_cells_of(cons) = {} THEN [configs |-> <<>>, examined |-> 0]
    ELSE enumerate_loop(Reverse(candidates_from(SetIter(all_cells_of(cons), order), 0)),
                        1, cons, max_iter, <<>>)

\* Returns the list valid_configs, and (for the model) how many candidates
\* the loops examined.
enumerate_valid_configurations(cons, max_iter, order) ==
    IF all_cells_of(cons) = {} THEN [configs |-> <<>>, examined |-> 0]
    ELSE enumerate_loop(candidates_from(SetIter(all_cells_of(cons), order), 0),
                        1, cons, max_iter, <<>>)

----------------------------------------------------------------------------
(* solver.py: calculate_simple_probability, calculate_probabilities        *)

\* A float quotient num / den, kept exact.
Frac(num, den) == [num |-> num, den |-> den]

Max(a, b) == IF a >= b THEN a ELSE b

\* int(x * 0.15) in a faulty variant that rounds to the nearest integer.
IntOf15Percent_nearest(x) == (x * 15 + 50) \div 100

\* int(x * 0.15) for the cell counts of the model: the float product
\* truncates to floor(15 x / 100).
IntOf15Percent(x) == (x * 15) \div 100

\* The total when the caller gives none (total_mines is None).
estimated_total_mines(R, C) ==
    IF <<R, C>> = <<9, 9>> THEN 10
    ELSE IF <<R, C>> = <<16, 16>> THEN 40
    ELSE IF <<R, C>> = <<16, 30>> THEN 99
    ELSE IntOf15Percent(R * C)

\* remaining_mines: a faulty variant without the clamp at 0.
remaining_unclamped(total_mines, flagged_count) == total_mines - flagged_count

\* remaining_mines = max(0, total_mines - flagged_count)
remaining_mines_of(total_mines, flagged_count) ==
    Max(0, total_mines - flagged_count)

\* total_mines is <<>> for None and <<n>> for the number n.  The dict is the
\* list of its entries in insertion order.
calculate_simple_probability(b, R, C, total_mines) ==
    LET covered_cells == SelectSeq(RowMajorCells(R, C), LAMBDA x : b[x] = STATE_COVERED)
        flagged_count == Cardinality({ x \in Coordinates(R, C) : b[x] = STATE_FLAGGED })
        total         == IF total_mines = <<>> THEN estimated_total_mines(R, C)
                         ELSE total_mines[1]
        remaining     == remaining_mines_of(total, flagged_count)
    IN  IF covered_cells = <<>> THEN <<>>
        ELSE [i \in 1..Len(covered_cells) |->
                [cell |-> covered_cells[i],
                 prob |-> Frac(remaining, Len(covered_cells))]]

\* The cells of the configurations, in the order the counting loops meet them.
RECURSIVE cells_met(_, _)
cells_met(configs, order) ==
    IF configs = <<>> THEN <<>>
    ELSE SetIter(Head(configs), order) \o cells_met(Tail(configs), order)

\* The keys of mine_counts in insertion order: first occurrences only.
RECURSIVE first_occurrences(_)
first_occurrences(s) ==
    IF s = <<>> THEN <<>>
    ELSE LET init == first_occurrences(SubSeq(s, 1, Len(s) - 1))
         IN  IF s[Len(s)] \in SeqToSet(init) THEN init ELSE Append(init, s[Len(s)])

\* mine_counts[cell], in a faulty variant that records presence ("= 1") where
\* the code counts ("+= 1").
mine_count_presence(configs, cell) ==
    IF \E i \in 1..Len(configs) : cell \in configs[i] THEN 1 ELSE 0

\* mine_counts[cell]
mine_count(configs, cell) ==
    Cardinality({ i \in 1..Len(configs) : cell \in configs[i] })

\* The counting loops and the division, for a non-empty list of configurations.
frequency_map(configs, order) ==
    LET keys == first_occurrences(cells_met(configs, order))
    IN  [i \in 1..Len(keys) |->
            [cell |-> keys[i],
             prob |-> Frac(mine_count(configs, keys[i]), Len(configs))]]

\* calculate_probabilities in a faulty variant without the fallback after an
\* enumeration that found nothing.
calculate_probabilities_without_fallback(b, R, C, order) ==
    LET cons == build_constraint_set(b, R, C)
    IN  IF cons = <<>> THEN calculate_simple_probability(b, R, C, <<>>)
        ELSE LET found == enumerate_valid_configurations(cons, MAX_CONFIGURATIONS, order).configs
             IN  IF found = <<>> THEN <<>>
                 ELSE frequency_map(found, order)

calculate_probabilities(b, R, C, order) ==
    LET cons == build_constraint_set(b, R, C)
    IN  IF cons = <<>> THEN calculate_simple_probability(b, R, C, <<>>)
        ELSE LET found == enumerate_valid_configurations(cons, MAX_CONFIGURATIONS, order).configs
             IN  IF found = <<>> THEN calculate_simple_probability(b, R, C, <<>>)
                 ELSE frequency_map(found, order)

----------------------------------------------------------------------------
(* solver.py: get_safest_cell, MinesweeperSolver                           *)

\* a < b for float quotients with positive denominators.
FracLess(a, b) == a.num * b.den < b.num * a.den

\* get_safest_cell in a faulty variant that keeps the last of the entries
\* sharing the minimum.
get_safest_cell_last(probs) ==
    IF probs = <<>> THEN <<>>
    ELSE LET best == CHOOSE i \in 1..Len(probs) :
                        /\ \A j \in 1..Len(probs) : ~FracLess(probs[j].prob, probs[i].prob)
                        /\ \A j \in (i + 1)..Len(probs) : FracLess(probs[i].prob, probs[j].prob)
         IN  <<probs[best].cell>>

\* min(probabilities.items(), key=lambda x: x[1])[0]: the first entry, in
\* the dict's order, that no entry is below.  <<>> stands for None.
get_safest_cell(probs) ==
    IF probs = <<>> THEN <<>>
    ELSE LET best == CHOOSE i \in 1..Len(probs) :
                        /\ \A j \in 1..Len(probs) : ~FracLess(probs[j].prob, probs[i].prob)
                        /\ \A j \in 1..(i - 1) : FracLess(probs[i].prob, probs[j].prob)
         IN  <<probs[best].cell>>

\* The scan of _make_guess in a faulty variant that goes through the whole
\* top row before the bottom row.
guess_scan_row_after_row(R, C) ==
    << <<0, 0>>, <<0, C - 1>>, <<R - 1, 0>>, <<R - 1, C - 1>> >>
    \o [i \in 1..C |-> <<0, i - 1>>]
    \o [i \in 1..C |-> <<R - 1, i - 1>>]
    \o RowMajorCells(R, C)

\* The cells _make_guess tests, in order: the four corners, then for every
\* column the top-row and the bottom-row cell, then the grid row by row.
guess_scan(R, C) ==
    << <<0, 0>>, <<0, C - 1>>, <<R - 1, 0>>, <<R - 1, C - 1>> >>
    \o [i \in 1..(2 * C) |-> IF i % 2 = 1 THEN <<0, (i - 1) \div 2>>
                                          ELSE <<R - 1, (i - 1) \div 2>>]
    \o RowMajorCells(R, C)

\* _make_guess in a faulty variant that reveals the first cell it tests
\* when none is Covered.
make_guess_anyway(b, R, C) ==
    LET found == SelectSeq(guess_scan(R, C), LAMBDA x : b[x] = STATE_COVERED)
    IN  IF found = <<>> THEN << <<guess_scan(R, C)[1], "reveal">> >>
        ELSE << <<found[1], "reveal">> >>

make_guess(b, R, C) ==
    LET found == SelectSeq(guess_scan(R, C), LAMBDA x : b[x] = STATE_COVERED)
    IN  IF found = <<>> THEN <<>> ELSE << <<found[1], "reveal">> >>

----------------------------------------------------------------------------
(* The inputs.                                                             *)

\* The states a drawn cell can hold.
CellStates ==
    {STATE_COVERED, STATE_FLAGGED, STATE_UNCOVERED, STATE_MINE, STATE_UNKNOWN}
    \cup { DigitString(n) : n \in 1..MaxNumber }

Input(R, C, b) == [rows |-> R, cols |-> C, cells |-> b]

\* The shapes R x C with R <= C and at most MaxCells cells.
SmallShapes ==
    { sh \in (1..MaxCells) \X (1..MaxCells) :
        sh[1] <= sh[2] /\ sh[1] * sh[2] <= MaxCells }

\* Every board of every small shape.
SmallBoards ==
    UNION { { Input(sh[1], sh[2], b) : b \in [Coordinates(sh[1], sh[2]) -> CellStates] } :
            sh \in SmallShapes }

WideShape == <<2, 3>>
WideStates == {STATE_COVERED, STATE_UNCOVERED, "1", "2"}

\* Every 2 x 3 board of covered, revealed-blank, "1" and "2" cells.
WideBoards ==
    { Input(WideShape[1], WideShape[2], b) :
        b \in [Coordinates(WideShape[1], WideShape[2]) -> WideStates] }

PresetShapes == { <<9, 9>> }

\* Boards of a preset size: one state everywhere but on the first MaxPatch
\* cells of the top row, which are arbitrary.
PresetBoards ==
    UNION { { Input(sh[1], sh[2],
                    [x \in Coordinates(sh[1], sh[2]) |->
                        IF x[1] = 0 /\ x[2] < MaxPatch THEN patch[x[2] + 1] ELSE fill]) :
              patch \in [1..MaxPatch -> CellStates],
              fill \in {STATE_COVERED, STATE_UNCOVERED} } :
            sh \in PresetShapes }

BoardInputs == SmallBoards \cup WideBoards \cup PresetBoards

----------------------------------------------------------------------------
(* The calls on a board: apply_logic_rules, calculate_probabilities and    *)
(* MinesweeperSolver.solve, each on a freshly drawn board.                 *)

Init ==
    /\ \E x \in BoardInputs : board = x.cells /\ rows = x.rows /\ cols = x.cols
    /\ iterOrder \in IterOrders
    /\ constraints = <<>>
    /\ max_iterations = MAX_CONFIGURATIONS
    /\ pc = "idle"
    /\ phase = "none"
    /\ moves = <<>>
    /\ probabilities = <<>>
    /\ valid_configs = <<>>
    /\ examined = 0
    /\ arrays = <<>>
    /\ self_board = "None"
    /\ calls = <<>>
    /\ call = <<>>
    /\ bot = <<>>

\* moves = apply_logic_rules(board)
CallApplyLogicRules ==
    /\ pc = "idle"
    /\ moves' = apply_logic_rules(board, rows, cols, iterOrder)
    /\ pc' = "apply_logic_rules"
    /\ UNCHANGED <<call, bot>>
    /\ UNCHANGED <<arrays, self_board, calls>>
    /\ UNCHANGED <<board, rows, cols, iterOrder, constraints, max_iterations,
                   phase, probabilities, valid_configs, examined>>

\* probabilities = calculate_probabilities(board); the constraints it built
\* and the configurations it enumerated are recorded with it.
CallCalculateProbabilities ==
    /\ pc = "idle"
    /\ constraints' = build_constraint_set(board, rows, cols)
    /\ LET found == enumerate_valid_configurations(constraints', max_iterations, iterOrder)
       IN  /\ valid_configs' = found.configs
           /\ examined' = found.examined
    /\ probabilities' = calculate_probabilities(board, rows, cols, iterOrder)
    /\ pc' = "calculate_probabilities"
    /\ UNCHANGED <<call, bot>>
    /\ UNCHANGED <<arrays, self_board, calls>>
    /\ UNCHANGED <<board, rows, cols, iterOrder, max_iterations, phase, moves>>

\* solve, phase 1, in a faulty variant that goes on to the probability phase
\* with the moves it found.
SolveLogicPhase_falls_through ==
    /\ pc = "idle"
    /\ phase' = "Logic"
    /\ moves' = apply_logic_rules(board, rows, cols, iterOrder)
    /\ pc' = "ProbabilityPhase"
    /\ self_board' = "board"
    /\ UNCHANGED <<call, bot>>
    /\ UNCHANGED <<arrays, calls>>
    /\ UNCHANGED <<board, rows, cols, iterOrder, constraints, max_iterations,
                   probabilities, valid_configs, examined>>

\* solve, phase 1: the deterministic rules.
SolveLogicPhase ==
    /\ pc = "idle"
    /\ phase' = "Logic"
    /\ LET found == IF ENABLE_LOGIC_RULES
                       THEN apply_logic_rules(board, rows, cols, iterOrder) ELSE <<>>
       IN  /\ moves' = found
           /\ pc' = IF found # <<>> THEN "done" ELSE "ProbabilityPhase"
    /\ self_board' = "board"
    /\ UNCHANGED <<call, bot>>
    /\ UNCHANGED <<arrays, calls>>
    /\ UNCHANGED <<board, rows, cols, iterOrder, constraints, max_iterations,
                   probabilities, valid_configs, examined>>

\* solve, phase 2: the safest cell of the probability map.
SolveProbabilityPhase ==
    /\ pc = "ProbabilityPhase"
    /\ phase' = "Probability"
    /\ constraints' = build_constraint_set(board, rows, cols)
    /\ LET found == enumerate_valid_configurations(constraints', max_iterations, iterOrder)
       IN  /\ valid_configs' = found.configs
           /\ examined' = found.examined
    /\ LET probs  == IF ENABLE_PROBABILITY_CALCULATION
                        THEN calculate_probabilities(board, rows, cols, iterOrder) ELSE <<>>
           safest == get_safest_cell(probs)
       IN  /\ probabilities' = probs
           /\ IF probs # <<>> /\ safest # <<>>
                 THEN moves' = << <<safest[1], "reveal">> >> /\ pc' = "done"
                 ELSE moves' = <<>> /\ pc' = "GuessPhase"
    /\ UNCHANGED <<call, bot>>
    /\ UNCHANGED <<arrays, self_board, calls>>
    /\ UNCHANGED <<board, rows, cols, iterOrder, max_iterations>>

\* solve, phase 3: the positional guess.
SolveGuessPhase ==
    /\ pc = "GuessPhase"
    /\ phase' = "Guess"
    /\ moves' = make_guess(board, rows, cols)
    /\ pc' = "done"
    /\ UNCHANGED <<call, bot>>
    /\ UNCHANGED <<arrays, self_board, calls>>
    /\ UNCHANGED <<board, rows, cols, iterOrder, constraints, max_iterations,
                   probabilities, valid_configs, examined>>

Next ==
    \/ CallApplyLogicRules
    \/ CallCalculateProbabilities
    \/ SolveLogicPhase
    \/ SolveProbabilityPhase
    \/ SolveGuessPhase

Spec == Init /\ [][Next]_vars

----------------------------------------------------------------------------
(* The direct call enumerate_valid_configurations(constraints, budget).    *)

EnumCells == Coordinates(1, MaxEnumCells)

\* Every constraint over the cells, satisfiable or not.
EnumConstraints ==
    { Constraint(cells, required) :
        cells \in SUBSET EnumCells, required \in 0..MaxEnumCells }

\* The lists of no, one or two constraints.
ConstraintLists ==
    { <<>> } \cup { <<c>> : c \in EnumConstraints }
             \cup { <<c, d>> : c \in EnumConstraints, d \in EnumConstraints }

InitEnum ==
    /\ board = <<>>
    /\ rows = 0
    /\ cols = 0
    /\ iterOrder \in IterOrders
    /\ constraints \in ConstraintLists
    /\ max_iterations \in 1..MaxBudget
    /\ pc = "idle"
    /\ phase = "none"
    /\ moves = <<>>
    /\ probabilities = <<>>
    /\ valid_configs = <<>>
    /\ examined = 0
    /\ arrays = <<>>
    /\ self_board = "None"
    /\ calls = <<>>
    /\ call = <<>>
    /\ bot = <<>>

\* valid_configs = enumerate_valid_configurations(constraints, max_iterations)
CallEnumerate ==
    /\ pc = "idle"
    /\ LET found == enumerate_valid_configurations(constraints, max_iterations, iterOrder)
       IN  /\ valid_configs' = found.configs
           /\ examined' = found.examined
    /\ pc' = "enumerate_valid_configurations"
    /\ UNCHANGED <<call, bot>>
    /\ UNCHANGED <<arrays, self_board, calls>>
    /\ UNCHANGED <<board, rows, cols, iterOrder, constraints, max_iterations,
                   phase, moves, probabilities>>

NextEnum == CallEnumerate

SpecEnum == InitEnum /\ [][NextEnum]_vars

----------------------------------------------------------------------------
(* Notions the properties are stated with, defined without the code's      *)
(* helpers.                                                                *)

Abs(x) == IF x < 0 THEN -x ELSE x

\* The cells at Chebyshev distance 1 of x on the board.
Adjacent(x) ==
    { y \in Coordinates(rows, cols) :
        y # x /\ Abs(y[1] - x[1]) <= 1 /\ Abs(y[2] - x[2]) <= 1 }

\* Uncovered(n) with n >= 1, and its n.
IsNumber(s) == \E n \in 1..8 : s = DigitString(n)
NumberOf(s) == CHOOSE n \in 1..8 : s = DigitString(n)

CoveredAround(x) == { y \in Adjacent(x) : board[y] = "covered" }
FlaggedAround(x) == { y \in Adjacent(x) : board[y] = "flagged" }

\* How many moves of the list are <<cell, action>>.
MoveCount(cell, action) ==
    Cardinality({ i \in 1..Len(moves) : moves[i] = <<cell, action>> })

\* A revealed cell: blank or numbered.
IsRevealed(s) == s = "uncovered" \/ IsNumber(s)

\* The board is consistent with the mine placement M.
ConsistentWith(M) ==
    \A x \in Coordinates(rows, cols) :
        /\ board[x] = "flagged" => x \in M
        /\ IsRevealed(board[x]) => x \notin M
        /\ IsNumber(board[x]) => NumberOf(board[x]) = Cardinality(M \cap Adjacent(x))

\* The frontier of the constraints, and its subsets that meet every one.
Frontier == UNION { constraints[i].cells : i \in 1..Len(constraints) }

ValidSubsets ==
    { S \in SUBSET Frontier :
        \A i \in 1..Len(constraints) :
            Cardinality(S \cap constraints[i].cells) = constraints[i].required }

Returned == { valid_configs[i] : i \in 1..Len(valid_configs) }

----------------------------------------------------------------------------
(* Properties of apply_logic_rules.                                        *)

\* C1: on a board consistent with a mine placement M (flags in M, no
\* revealed cell in M, every number the count of M around it) every flag
\* move of apply_logic_rules is on a cell of M and every reveal move on a
\* cell outside M.  Stated on the small boards still in play (no cell shows
\* an exploded mine), over every M.
C1_LogicMovesAreZeroRisk ==
    (/\ pc = "apply_logic_rules"
     /\ rows * cols <= MaxCells
     /\ \A x \in Coordinates(rows, cols) : board[x] # "mine") =>
        \A M \in SUBSET Coordinates(rows, cols) :
            ConsistentWith(M) =>
                \A i \in 1..Len(moves) :
                    /\ moves[i][2] = "flag" => moves[i][1] \in M
                    /\ moves[i][2] = "reveal" => moves[i][1] \notin M

\* C2: apply_logic_rules emits a flag move on cell c once for every numbered
\* cell x such that c is a Covered neighbour of x and the Covered plus the
\* Flagged neighbours of x number n, and emits no other flag move.
C2_SaturationRule ==
    pc = "apply_logic_rules" =>
        /\ \A c \in Coordinates(rows, cols) :
              MoveCount(c, "flag") =
                  Cardinality({ x \in Adjacent(c) :
                      /\ IsNumber(board[x])
                      /\ board[c] = "covered"
                      /\ Cardinality(CoveredAround(x)) + Cardinality(FlaggedAround(x))
                            = NumberOf(board[x]) })
        /\ \A i \in 1..Len(moves) :
              /\ moves[i][1] \in Coordinates(rows, cols)
              /\ moves[i][2] \in {"flag", "reveal"}

\* The saturation rule fires for a numbered cell that has a flag beside it.
C2_Witness ==
    /\ pc = "apply_logic_rules"
    /\ \E x \in Coordinates(rows, cols) :
          /\ IsNumber(board[x])
          /\ FlaggedAround(x) # {}
          /\ \E c \in CoveredAround(x) : MoveCount(c, "flag") > 0
          /\ Cardinality(CoveredAround(x)) + Cardinality(FlaggedAround(x))
                = NumberOf(board[x])

\* C3: apply_logic_rules emits a reveal move on cell c once for every
\* numbered cell x such that c is a Covered neighbour of x and the Flagged
\* neighbours of x number n (so all k Covered neighbours of such an x are
\* emitted), and emits no other reveal move.
C3_ExhaustionRule ==
    pc = "apply_logic_rules" =>
        \A c \in Coordinates(rows, cols) :
            MoveCount(c, "reveal") =
                Cardinality({ x \in Adjacent(c) :
                    /\ IsNumber(board[x])
                    /\ board[c] = "covered"
                    /\ Cardinality(FlaggedAround(x)) = NumberOf(board[x]) })

\* The exhaustion rule fires for a "1" with one flag and k >= 2 Covered
\* neighbours, all of which are revealed.
C3_Witness ==
    /\ pc = "apply_logic_rules"
    /\ \E x \in Coordinates(rows, cols) :
          /\ board[x] = "1"
          /\ Cardinality(FlaggedAround(x)) = 1
          /\ Cardinality(CoveredAround(x)) >= 2
          /\ \A c \in CoveredAround(x) : MoveCount(c, "reveal") > 0

----------------------------------------------------------------------------
(* Properties of enumerate_valid_configurations.                           *)

EnumReturned == pc = "enumerate_valid_configurations"

\* C4: the returned list has no duplicate; every element is a subset of the
\* frontier holding exactly `required` cells of every constraint; when the
\* frontier is not empty and such subsets number at most the budget, the
\* list holds every one of them; an empty frontier gives the empty list.
C4_EnumerationCorrect ==
    EnumReturned =>
        /\ \A i, j \in 1..Len(valid_configs) :
              i # j => valid_configs[i] # valid_configs[j]
        /\ Returned \subseteq ValidSubsets
        /\ (Frontier # {} /\ Cardinality(ValidSubsets) <= max_iterations)
              => Returned = ValidSubsets
        /\ Frontier = {} => valid_configs = <<>>

\* The constraint ({(0,0),(0,1)}, 1) alone gives exactly {(0,0)} and {(0,1)}.
C4_Witness ==
    /\ EnumReturned
    /\ constraints = << Constraint({<<0, 0>>, <<0, 1>>}, 1) >>
    /\ Len(valid_configs) = 2
    /\ Returned = { {<<0, 0>>}, {<<0, 1>>} }

\* The candidates in the order the search visits them.
SearchOrder == candidates_from(SetIter(Frontier, iterOrder), 0)

\* C5: for a positive budget the list never holds more than budget
\* configurations; when more than budget subsets are valid it holds exactly
\* budget of them; and once the budget-th is recorded the search stops: the
\* last candidate examined is the last configuration recorded.
C5_BudgetRespected ==
    (EnumReturned /\ max_iterations > 0) =>
        /\ Len(valid_configs) <= max_iterations
        /\ Cardinality(ValidSubsets) > max_iterations
              => Len(valid_configs) = max_iterations
        /\ Len(valid_configs) = max_iterations
              => /\ examined \in 1..Len(SearchOrder)
                 /\ SeqToSet(SearchOrder[examined]) = valid_configs[Len(valid_configs)]
        /\ (Frontier # {} /\ Len(valid_configs) < max_iterations)
              => examined = Len(SearchOrder)

\* More subsets are valid than the budget allows, and the search stopped
\* before the last candidate.
C5_Witness ==
    /\ EnumReturned
    /\ Cardinality(ValidSubsets) > max_iterations
    /\ Len(valid_configs) = max_iterations
    /\ max_iterations >= 2
    /\ examined < Len(SearchOrder)

\* C6: the list is ordered by non-decreasing configuration size, and when
\* the budget cuts it short every valid subset left out is at least as
\* large as the last configuration returned.
C6_AscendingSize ==
    EnumReturned =>
        /\ \A i, j \in 1..Len(valid_configs) :
              i < j => Cardinality(valid_configs[i]) <= Cardinality(valid_configs[j])
        /\ valid_configs # <<>> =>
              \A S \in ValidSubsets \ Returned :
                  Cardinality(S) >= Cardinality(valid_configs[Len(valid_configs)])

\* The budget cuts the list short and leaves out a strictly larger subset.
C6_Witness ==
    /\ EnumReturned
    /\ valid_configs # <<>>
    /\ \E S \in ValidSubsets \ Returned :
          Cardinality(S) > Cardinality(valid_configs[Len(valid_configs)])

----------------------------------------------------------------------------
(* Properties of calculate_probabilities and of solve's probability phase. *)

ProbabilitiesReturned == pc = "calculate_probabilities"

Keys == { probabilities[i].cell : i \in 1..Len(probabilities) }

\* The cells that are a mine in at least one returned configuration.
MinedSomewhere == UNION Returned

\* C7: every value of the map calculate_probabilities returns lies in
\* [0, 1], on the enumeration path and on the uniform fallback path.
C7_ProbabilitiesInUnitRange ==
    ProbabilitiesReturned =>
        \A i \in 1..Len(probabilities) :
            /\ probabilities[i].prob.den > 0
            /\ 0 <= probabilities[i].prob.num
            /\ probabilities[i].prob.num <= probabilities[i].prob.den

\* C8: when the enumeration returns at least one configuration, the keys of
\* the map are exactly the cells that occur in a returned configuration,
\* each key's value is (configurations containing it) / (configurations),
\* and frontier cells in no configuration are absent.
C8_FrequencyMap ==
    (ProbabilitiesReturned /\ valid_configs # <<>>) =>
        /\ Keys = MinedSomewhere
        /\ \A i, j \in 1..Len(probabilities) :
              i # j => probabilities[i].cell # probabilities[j].cell
        /\ \A i \in 1..Len(probabilities) :
              /\ probabilities[i].prob.den > 0
              /\ probabilities[i].prob.num * Len(valid_configs)
                    = Cardinality({ k \in 1..Len(valid_configs) :
                                      probabilities[i].cell \in valid_configs[k] })
                      * probabilities[i].prob.den
        /\ \A x \in Frontier \ MinedSomewhere : x \notin Keys

\* Some frontier cell is a mine in no configuration, another in some but
\* not all of at least two configurations.
C8_Witness ==
    /\ ProbabilitiesReturned
    /\ Len(valid_configs) >= 2
    /\ Frontier \ MinedSomewhere # {}
    /\ \E i \in 1..Len(probabilities) :
          /\ 0 < probabilities[i].prob.num
          /\ probabilities[i].prob.num < probabilities[i].prob.den

\* C9: when the enumeration yields a configuration and some frontier cell is
\* a mine in none, the reveal the probability phase of solve returns never
\* targets a cell of positive mine frequency.
C9_ZeroFrequencyCellPreferred ==
    (/\ pc = "done"
     /\ phase = "Probability"
     /\ valid_configs # <<>>
     /\ Frontier \ MinedSomewhere # {}) =>
        /\ Len(moves) = 1
        /\ moves[1][2] = "reveal"
        /\ moves[1][1] \notin MinedSomewhere

\* The board's Covered cells and its count of flags.
CoveredCells == { x \in Coordinates(rows, cols) : board[x] = "covered" }
FlaggedCount == Cardinality({ x \in Coordinates(rows, cols) : board[x] = "flagged" })

\* The fallback applies: no numbered cell has a Covered neighbour, or no
\* subset of the frontier meets every constraint.
FallbackCase ==
    \/ \A x \in Coordinates(rows, cols) : IsNumber(board[x]) => CoveredAround(x) = {}
    \/ ValidSubsets = {}

\* C10: in the fallback case calculate_probabilities returns one entry per
\* Covered cell of the board, every one max(0, totalMines - flaggedCount) /
\* coveredCount for one total (10 on a 9 x 9 board), and the empty map when
\* no cell is Covered.
C10_UniformFallback ==
    (ProbabilitiesReturned /\ FallbackCase) =>
        /\ Keys = CoveredCells
        /\ Len(probabilities) = Cardinality(CoveredCells)
        /\ CoveredCells = {} => probabilities = <<>>
        /\ \E total \in 0..(rows * cols) :
              /\ <<rows, cols>> = <<9, 9>> => total = 10
              /\ \A i \in 1..Len(probabilities) :
                    /\ probabilities[i].prob.den > 0
                    /\ probabilities[i].prob.num * Cardinality(CoveredCells)
                          = Max(0, total - FlaggedCount) * probabilities[i].prob.den

\* Contradictory constraints on a 9 x 9 board: no subset is valid and every
\* Covered cell gets 10 / coveredCount.
C10_Witness ==
    /\ ProbabilitiesReturned
    /\ constraints # <<>>
    /\ ValidSubsets = {}
    /\ <<rows, cols>> = <<9, 9>>
    /\ probabilities # <<>>
    /\ \A i \in 1..Len(probabilities) :
          probabilities[i].prob = Frac(10, Cardinality(CoveredCells))

----------------------------------------------------------------------------
(* The direct call calculate_simple_probability(board), no total given,    *)
(* on boards of the preset sizes and of other sizes.                       *)

MaxSide == 4

\* The sizes of config.DIFFICULTY_LEVELS, one of them turned, and every
\* size up to MaxSide x MaxSide.
FallbackShapes ==
    { <<9, 9>>, <<16, 16>>, <<16, 30>>, <<30, 16>> }
    \cup ((1..MaxSide) \X (1..MaxSide))

FallbackStates == {STATE_COVERED, STATE_FLAGGED, STATE_UNCOVERED}

\* One state everywhere but on the first MaxPatch cells of the top row.
FallbackBoards ==
    UNION { { Input(sh[1], sh[2],
                    [x \in Coordinates(sh[1], sh[2]) |->
                        IF x[1] = 0 /\ x[2] < MaxPatch THEN patch[x[2] + 1] ELSE fill]) :
              patch \in [1..MaxPatch -> FallbackStates],
              fill \in {STATE_COVERED, STATE_UNCOVERED} } :
            sh \in FallbackShapes }

InitFallback ==
    /\ \E x \in FallbackBoards : board = x.cells /\ rows = x.rows /\ cols = x.cols
    /\ iterOrder = "asc"
    /\ constraints = <<>>
    /\ max_iterations = MAX_CONFIGURATIONS
    /\ pc = "idle"
    /\ phase = "none"
    /\ moves = <<>>
    /\ probabilities = <<>>
    /\ valid_configs = <<>>
    /\ examined = 0
    /\ arrays = <<>>
    /\ self_board = "None"
    /\ calls = <<>>
    /\ call = <<>>
    /\ bot = <<>>

\* probabilities = calculate_simple_probability(board)
CallCalculateSimpleProbability ==
    /\ pc = "idle"
    /\ probabilities' = calculate_simple_probability(board, rows, cols, <<>>)
    /\ pc' = "calculate_simple_probability"
    /\ UNCHANGED <<call, bot>>
    /\ UNCHANGED <<arrays, self_board, calls>>
    /\ UNCHANGED <<board, rows, cols, iterOrder, constraints, max_iterations,
                   phase, moves, valid_configs, examined>>

NextFallback == CallCalculateSimpleProbability

SpecFallback == InitFallback /\ [][NextFallback]_vars

----------------------------------------------------------------------------
(* Properties of the default mine total.                                   *)

\* x * 0.15 rounded to the nearest integer, a tie going to the even one.
Round15Percent(x) ==
    LET q == (x * 15) \div 100
        r == (x * 15) % 100
    IN  IF r < 50 THEN q
        ELSE IF r > 50 THEN q + 1
        ELSE IF q % 2 = 0 THEN q ELSE q + 1

\* x * 0.15 with its fraction dropped.
Truncated15Percent(x) == CHOOSE q \in 0..x : 100 * q <= 15 * x /\ 15 * x < 100 * (q + 1)

\* The preset total of a size, 0 for a size that has none.
PresetTotal ==
    IF <<rows, cols>> = <<9, 9>> THEN 10
    ELSE IF <<rows, cols>> = <<16, 16>> THEN 40
    ELSE IF <<rows, cols>> = <<16, 30>> THEN 99
    ELSE 0

\* Every entry of the map is max(0, total - flaggedCount) / coveredCount.
UniformWithTotal(total) ==
    /\ Keys = CoveredCells
    /\ \A i \in 1..Len(probabilities) :
          /\ probabilities[i].prob.den > 0
          /\ probabilities[i].prob.num * Cardinality(CoveredCells)
                = Max(0, total - FlaggedCount) * probabilities[i].prob.den

\* C11 as stated: with no total supplied the fallback uses 10 on 9 x 9, 40
\* on 16 x 16, 99 on 16 x 30 and round(rows * cols * 0.15) on every other
\* size.
C11_DefaultTotalRounded ==
    pc = "calculate_simple_probability" =>
        UniformWithTotal(IF PresetTotal # 0 THEN PresetTotal
                         ELSE Round15Percent(rows * cols))

\* C11: with no total supplied the fallback uses 10 on 9 x 9, 40 on 16 x 16,
\* 99 on 16 x 30 (exact (rows, cols) match) and on every other size
\* int(rows * cols * 0.15): 15% of the cell count with its fraction dropped.
C11_DefaultTotalTruncated ==
    pc = "calculate_simple_probability" =>
        UniformWithTotal(IF PresetTotal # 0 THEN PresetTotal
                         ELSE Truncated15Percent(rows * cols))

\* A size without a preset where rounding and truncation differ and the
\* truncated total shows in the map: no flag, some Covered cell.
C11_Witness ==
    /\ pc = "calculate_simple_probability"
    /\ PresetTotal = 0
    /\ Truncated15Percent(rows * cols) >= 1
    /\ Round15Percent(rows * cols) # Truncated15Percent(rows * cols)
    /\ FlaggedCount = 0
    /\ probabilities # <<>>
    /\ \A i \in 1..Len(probabilities) :
          probabilities[i].prob
              = Frac(Truncated15Percent(rows * cols), Cardinality(CoveredCells))

----------------------------------------------------------------------------
(* Properties of MinesweeperSolver.solve.                                  *)

\* No numbered cell with a Covered neighbour meets the saturation or the
\* exhaustion condition: the list of apply_logic_rules is empty.
LogicListEmpty ==
    \A x \in Coordinates(rows, cols) :
        (IsNumber(board[x]) /\ CoveredAround(x) # {}) =>
            /\ Cardinality(CoveredAround(x)) + Cardinality(FlaggedAround(x))
                  # NumberOf(board[x])
            /\ Cardinality(FlaggedAround(x)) # NumberOf(board[x])

\* The moves are those of the two rules, each as often as a numbered cell
\* asks for it.
MovesAreLogicList ==
    \A c \in Coordinates(rows, cols) :
        /\ MoveCount(c, "flag") =
              Cardinality({ x \in Adjacent(c) :
                  /\ IsNumber(board[x])
                  /\ board[c] = "covered"
                  /\ Cardinality(CoveredAround(x)) + Cardinality(FlaggedAround(x))
                        = NumberOf(board[x]) })
        /\ MoveCount(c, "reveal") =
              Cardinality({ x \in Adjacent(c) :
                  /\ IsNumber(board[x])
                  /\ board[c] = "covered"
                  /\ Cardinality(FlaggedAround(x)) = NumberOf(board[x]) })

\* solve has started on the board.
InSolve == pc \in {"ProbabilityPhase", "GuessPhase", "done"}

\* C12: solve runs Logic, then Probability, then Guess, and enters a later
\* phase only if every earlier one produced no move: with a non-empty logic
\* list it ends in the logic phase with exactly that list and has computed
\* no constraint, configuration or probability; the probability phase
\* starts only after an empty logic list; the guess phase runs only when
\* the logic list and the probability map are both empty.
C12_PhaseOrder ==
    InSolve =>
        /\ ~LogicListEmpty =>
              /\ pc = "done" /\ phase = "Logic"
              /\ moves # <<>> /\ MovesAreLogicList
              /\ probabilities = <<>> /\ constraints = <<>>
              /\ valid_configs = <<>> /\ examined = 0
        /\ LogicListEmpty => (phase = "Logic" <=> pc = "ProbabilityPhase")
        /\ pc = "ProbabilityPhase" => moves = <<>> /\ probabilities = <<>>
        /\ pc = "GuessPhase" => phase = "Probability"
        /\ phase = "Probability" => (pc = "done" <=> probabilities # <<>>)
        /\ (phase = "Guess" \/ pc = "GuessPhase") =>
              LogicListEmpty /\ probabilities = <<>>
        /\ phase = "Guess" => pc = "done"

\* solve ends in the logic phase on a board whose Covered cells would have
\* given the probability phase a map.
C12_Witness ==
    /\ pc = "done"
    /\ phase = "Logic"
    /\ ~LogicListEmpty
    /\ Len(moves) >= 2
    /\ Cardinality(CoveredCells) >= 2
    /\ probabilities = <<>>

\* Entry i of the map has the minimum probability.
IsMinimum(i) ==
    \A j \in 1..Len(probabilities) :
        probabilities[i].prob.num * probabilities[j].prob.den
            <= probabilities[j].prob.num * probabilities[i].prob.den

\* C13: when the probability phase is reached with a non-empty map, solve
\* returns exactly one move, a reveal, on a coordinate whose probability is
\* the minimum of the map, the first such coordinate in the map's order.
C13_SafestCellRevealed ==
    (InSolve /\ phase = "Probability" /\ probabilities # <<>>) =>
        /\ pc = "done"
        /\ Len(moves) = 1
        /\ moves[1][2] = "reveal"
        /\ \E i \in 1..Len(probabilities) :
              /\ moves[1][1] = probabilities[i].cell
              /\ IsMinimum(i)
              /\ \A j \in 1..(i - 1) : ~IsMinimum(j)

\* The map has an entry above the minimum before the chosen one and another
\* entry sharing the minimum after it.
C13_Witness ==
    /\ pc = "done"
    /\ phase = "Probability"
    /\ Len(moves) = 1
    /\ \E i, j, k \in 1..Len(probabilities) :
          /\ j < i /\ i < k
          /\ moves[1][1] = probabilities[i].cell
          /\ IsMinimum(i) /\ IsMinimum(k) /\ ~IsMinimum(j)

----------------------------------------------------------------------------
(* The direct call MinesweeperSolver._make_guess(board) on boards with a   *)
(* few Covered cells.                                                      *)

MaxGuessRows == 3
MaxGuessCols == 4
MaxCovered == 3

GuessShapes == (1..MaxGuessRows) \X (1..MaxGuessCols)

\* The sets of at most MaxCovered cells of an R x C board.
FewCells(R, C) ==
    { {} } \cup { { t[i] : i \in 1..MaxCovered } : t \in [1..MaxCovered -> Coordinates(R, C)] }

\* Covered on the chosen cells, one other state elsewhere.
GuessBoards ==
    UNION { { Input(sh[1], sh[2],
                    [x \in Coordinates(sh[1], sh[2]) |->
                        IF x \in S THEN STATE_COVERED ELSE fill]) :
              S \in FewCells(sh[1], sh[2]),
              fill \in {STATE_UNCOVERED, STATE_FLAGGED} } :
            sh \in GuessShapes }

InitGuess ==
    /\ \E x \in GuessBoards : board = x.cells /\ rows = x.rows /\ cols = x.cols
    /\ iterOrder = "asc"
    /\ constraints = <<>>
    /\ max_iterations = MAX_CONFIGURATIONS
    /\ pc = "idle"
    /\ phase = "none"
    /\ moves = <<>>
    /\ probabilities = <<>>
    /\ valid_configs = <<>>
    /\ examined = 0
    /\ arrays = <<>>
    /\ self_board = "None"
    /\ calls = <<>>
    /\ call = <<>>
    /\ bot = <<>>

\* moves = self._make_guess(board)
CallMakeGuess ==
    /\ pc = "idle"
    /\ moves' = make_guess(board, rows, cols)
    /\ pc' = "make_guess"
    /\ UNCHANGED <<call, bot>>
    /\ UNCHANGED <<arrays, self_board, calls>>
    /\ UNCHANGED <<board, rows, cols, iterOrder, constraints, max_iterations,
                   phase, probabilities, valid_configs, examined>>

NextGuess == CallMakeGuess

SpecGuess == InitGuess /\ [][NextGuess]_vars

----------------------------------------------------------------------------
(* Properties of the guess phase.                                          *)

Corners == << <<0, 0>>, <<0, cols - 1>>, <<rows - 1, 0>>, <<rows - 1, cols - 1>> >>

\* The Covered cells of the top and of the bottom row.
CoveredOnEdgeRows == { x \in CoveredCells : x[1] = 0 \/ x[1] = rows - 1 }

\* C14: _make_guess returns a single reveal on the first Covered corner in
\* the order (0,0), (0,cols-1), (rows-1,0), (rows-1,cols-1); with no Covered
\* corner, on a Covered cell of the top or bottom row that no Covered cell
\* of those rows is left of; with none, on the first Covered cell in
\* row-major order; and the empty list when no cell is Covered.  So a
\* Covered (0,0) is returned whatever else the board holds.
C14_GuessPriority ==
    pc = "make_guess" =>
        /\ CoveredCells = {} => moves = <<>>
        /\ CoveredCells # {} =>
              /\ Len(moves) = 1
              /\ moves[1][2] = "reveal"
              /\ LET g == moves[1][1]
                 IN  IF \E i \in 1..4 : board[Corners[i]] = "covered"
                        THEN \E i \in 1..4 :
                                /\ g = Corners[i]
                                /\ board[Corners[i]] = "covered"
                                /\ \A j \in 1..(i - 1) : board[Corners[j]] # "covered"
                     ELSE IF CoveredOnEdgeRows # {}
                        THEN /\ g \in CoveredOnEdgeRows
                             /\ \A y \in CoveredOnEdgeRows : g[2] <= y[2]
                     ELSE /\ g \in CoveredCells
                          /\ \A y \in CoveredCells :
                                g[1] < y[1] \/ (g[1] = y[1] /\ g[2] <= y[2])
        /\ board[<<0, 0>>] = "covered" => moves = << << <<0, 0>>, "reveal" >> >>

\* No corner is Covered; the bottom row has a Covered cell left of the
\* Covered cell of the top row, and is the one returned.
C14_Witness ==
    /\ pc = "make_guess"
    /\ \A i \in 1..4 : board[Corners[i]] # "covered"
    /\ rows >= 3
    /\ \E x, y \in CoveredOnEdgeRows :
          /\ x[1] = 0 /\ y[1] = rows - 1 /\ y[2] < x[2]
          /\ moves = << <<y, "reveal">> >>
    /\ \E z \in CoveredCells : z[1] = 1

\* C15: on a board without a Covered cell the logic phase finds no move,
\* the probability phase gets the empty map, the guess phase finds no cell,
\* and solve ends with the empty move list.
C15_NoCoveredCellNoMove ==
    (InSolve /\ CoveredCells = {}) =>
        /\ moves = <<>>
        /\ probabilities = <<>>
        /\ pc = "done" => phase = "Guess"

\* solve has ended on a board of numbered, Flagged, Mine and Unknown cells.
C15_Witness ==
    /\ pc = "done"
    /\ phase = "Guess"
    /\ CoveredCells = {}
    /\ moves = <<>>
    /\ \E x \in Coordinates(rows, cols) : IsNumber(board[x]) /\ FlaggedAround(x) # {}
    /\ \E x \in Coordinates(rows, cols) : board[x] = "mine"
    /\ \E x \in Coordinates(rows, cols) : board[x] = "unknown"

----------------------------------------------------------------------------
(* A MinesweeperSolver instance over a sequence of solve(board) and        *)
(* update_board(row, col, new_state) calls.  The caller owns the arrays    *)
(* (dtype=object, as BoardManager builds them); the solver is handed one   *)
(* of them by reference at each solve.                                     *)

MaxCalls == 3

ArrayNames == {"first", "second"}
LifeShape == <<1, 2>>
LifeStates == {STATE_COVERED, STATE_FLAGGED, "1"}

\* The states update_board is given after a move: revealed or flagged.
NewStates == {STATE_UNCOVERED, STATE_FLAGGED}

\* MinesweeperSolver.solve(board) as a whole: the move list it returns.
solve(b, R, C, order) ==
    LET logic == IF ENABLE_LOGIC_RULES THEN apply_logic_rules(b, R, C, order) ELSE <<>>
    IN  IF logic # <<>> THEN logic
        ELSE LET probs  == IF ENABLE_PROBABILITY_CALCULATION
                              THEN calculate_probabilities(b, R, C, order) ELSE <<>>
                 safest == get_safest_cell(probs)
             IN  IF probs # <<>> /\ safest # <<>>
                    THEN << <<safest[1], "reveal">> >>
                    ELSE make_guess(b, R, C)

InitSolver ==
    /\ board = <<>>
    /\ rows = LifeShape[1]
    /\ cols = LifeShape[2]
    /\ iterOrder \in IterOrders
    /\ constraints = <<>>
    /\ max_iterations = MAX_CONFIGURATIONS
    /\ pc = "idle"
    /\ phase = "none"
    /\ moves = <<>>
    /\ probabilities = <<>>
    /\ valid_configs = <<>>
    /\ examined = 0
    /\ arrays \in [ArrayNames -> [Coordinates(LifeShape[1], LifeShape[2]) -> LifeStates]]
    /\ self_board = "None"
    /\ calls = <<>>
    /\ call = <<>>
    /\ bot = <<>>

\* solve(board) in a faulty variant that decides on the stored board when
\* it has one.
CallSolve_on_stored(a) ==
    /\ Len(calls) < MaxCalls
    /\ self_board' = a
    /\ LET seen == IF self_board = "None" THEN arrays[a] ELSE arrays[self_board]
       IN  moves' = solve(seen, rows, cols, iterOrder)
    /\ calls' = Append(calls, [op |-> "solve", array |-> a, given |-> arrays[a],
                               returned |-> moves'])
    /\ UNCHANGED <<call, bot>>
    /\ UNCHANGED <<board, rows, cols, iterOrder, constraints, max_iterations, pc,
                   phase, probabilities, valid_configs, examined, arrays>>

\* moves = solver.solve(board), board being the caller's array a.
CallSolve(a) ==
    /\ Len(calls) < MaxCalls
    /\ self_board' = a
    /\ moves' = solve(arrays[a], rows, cols, iterOrder)
    /\ calls' = Append(calls, [op |-> "solve", array |-> a, given |-> arrays[a],
                               returned |-> moves'])
    /\ UNCHANGED <<call, bot>>
    /\ UNCHANGED <<board, rows, cols, iterOrder, constraints, max_iterations, pc,
                   phase, probabilities, valid_configs, examined, arrays>>

\* solver.update_board(row, col, new_state)
CallUpdateBoard(row, col, new_state) ==
    /\ Len(calls) < MaxCalls
    /\ arrays' = IF self_board # "None"
                    THEN [arrays EXCEPT ![self_board][<<row, col>>] = new_state]
                    ELSE arrays
    /\ calls' = Append(calls, [op |-> "update_board", array |-> self_board,
                               given |-> <<row, col, new_state>>, returned |-> <<>>])
    /\ UNCHANGED <<call, bot>>
    /\ UNCHANGED <<board, rows, cols, iterOrder, constraints, max_iterations, pc,
                   phase, moves, probabilities, valid_configs, examined, self_board>>

NextSolver ==
    \/ \E a \in ArrayNames : CallSolve(a)
    \/ \E x \in Coordinates(rows, cols), s \in NewStates : CallUpdateBoard(x[1], x[2], s)

SpecSolver == InitSolver /\ [][NextSolver]_vars

----------------------------------------------------------------------------
(* Properties of the solver instance.                                      *)

\* The solve calls made so far.
SolveCalls == { i \in 1..Len(calls) : calls[i].op = "solve" }

\* C16: across the calls, every array that was passed to solve still holds
\* what it held when it was passed.
C16_GivenBoardsUntouched ==
    \A i \in SolveCalls : arrays[calls[i].array] = calls[i].given

\* C17: once solve has returned, no field of the instance refers to the
\* board it was given.
C17_NoBoardRetained ==
    \A a \in ArrayNames : self_board # a

----------------------------------------------------------------------------
(* Properties of build_constraint_set.                                     *)

\* The numbered cells with at least one Covered neighbour.
ConstrainingCells ==
    { x \in Coordinates(rows, cols) : IsNumber(board[x]) /\ CoveredAround(x) # {} }

\* The place of x among them, counted row by row.
RankOf(x) ==
    1 + Cardinality({ y \in ConstrainingCells :
                        y[1] < x[1] \/ (y[1] = x[1] /\ y[2] < x[2]) })

\* C19: build_constraint_set returns, in row-major order of the numbered
\* cells, exactly one constraint (Covered neighbours, n) for each numbered
\* cell with at least one Covered neighbour and nothing else; equal
\* constraints stay apart.
C19_OneConstraintPerNumberedCell ==
    ProbabilitiesReturned =>
        /\ Len(constraints) = Cardinality(ConstrainingCells)
        /\ \A x \in ConstrainingCells :
              constraints[RankOf(x)]
                  = [cells |-> CoveredAround(x), required |-> NumberOf(board[x])]

\* Two numbered cells give the same constraint, both are in the list, and a
\* third numbered cell without a Covered neighbour gives none.
C19_Witness ==
    /\ ProbabilitiesReturned
    /\ \E i, j \in 1..Len(constraints) : i < j /\ constraints[i] = constraints[j]
    /\ \E x \in Coordinates(rows, cols) : IsNumber(board[x]) /\ CoveredAround(x) = {}

\* C20: every constraint returned by build_constraint_set has
\* 0 <= required <= |cells|, and a numbered cell whose number exceeds its
\* count of Covered neighbours contributes no constraint.
C20_RequiredWithinCells ==
    ProbabilitiesReturned =>
        /\ \A i \in 1..Len(constraints) :
              /\ 0 <= constraints[i].required
              /\ constraints[i].required <= Cardinality(constraints[i].cells)
        /\ \A x \in Coordinates(rows, cols) :
              (IsNumber(board[x]) /\ NumberOf(board[x]) > Cardinality(CoveredAround(x))) =>
                  \A i \in 1..Len(constraints) :
                      constraints[i]
                          # [cells |-> CoveredAround(x), required |-> NumberOf(board[x])]

----------------------------------------------------------------------------
(* apply_logic_rules and calculate_probabilities on boards that hold       *)
(* strings outside the recognised cell states.                             *)

\* Recognised states and digit strings that are no revealed count 1..8.
OddStates == {STATE_COVERED, STATE_FLAGGED, "1", "0", "00", "9", "12"}

OddShapes == { <<1, 2>>, <<1, 3>> }

OddBoards ==
    UNION { { Input(sh[1], sh[2], b) : b \in [Coordinates(sh[1], sh[2]) -> OddStates] } :
            sh \in OddShapes }

InitOdd ==
    /\ \E x \in OddBoards : board = x.cells /\ rows = x.rows /\ cols = x.cols
    /\ iterOrder \in IterOrders
    /\ constraints = <<>>
    /\ max_iterations = MAX_CONFIGURATIONS
    /\ pc = "idle"
    /\ phase = "none"
    /\ moves = <<>>
    /\ probabilities = <<>>
    /\ valid_configs = <<>>
    /\ examined = 0
    /\ arrays = <<>>
    /\ self_board = "None"
    /\ calls = <<>>
    /\ call = <<>>
    /\ bot = <<>>

NextOdd ==
    \/ CallApplyLogicRules
    \/ CallCalculateProbabilities

SpecOdd == InitOdd /\ [][NextOdd]_vars

\* C21: a cell whose state is outside the recognised set (such as '9',
\* '12' or '00') is never a numbered cell: the logic moves are those the
\* cells with a revealed count 1..8 ask for, and the constraints are one
\* per such cell with a Covered neighbour.
C21_UnrecognisedIsUnknown ==
    /\ pc = "apply_logic_rules" => MovesAreLogicList
    /\ ProbabilitiesReturned => Len(constraints) = Cardinality(ConstrainingCells)

----------------------------------------------------------------------------
(* The direct call get_neighbors(rows, cols, row, col), in and out of      *)
(* bounds.                                                                 *)

MaxNeighborSide == 4

InitNeighbors ==
    /\ board = <<>>
    /\ rows \in 0..MaxNeighborSide
    /\ cols \in 0..MaxNeighborSide
    /\ iterOrder = "asc"
    /\ constraints = <<>>
    /\ max_iterations = MAX_CONFIGURATIONS
    /\ pc = "idle"
    /\ phase = "none"
    /\ moves = <<>>
    /\ probabilities = <<>>
    /\ valid_configs = <<>>
    /\ examined = 0
    /\ arrays = <<>>
    /\ self_board = "None"
    /\ calls = <<>>
    /\ \E r, c \in (-2)..(MaxNeighborSide + 1) :
          call = [row |-> r, col |-> c, raised |-> FALSE, neighbors |-> {}]
    /\ bot = <<>>

\* neighbors = get_neighbors(rows, cols, row, col), or ValueError
CallGetNeighbors ==
    /\ pc = "idle"
    /\ call' = IF get_neighbors_raises(rows, cols, call.row, call.col)
                  THEN [call EXCEPT !.raised = TRUE]
                  ELSE [call EXCEPT !.neighbors = get_neighbors(rows, cols, call.row, call.col)]
    /\ pc' = "get_neighbors"
    /\ UNCHANGED <<board, rows, cols, iterOrder, constraints, max_iterations, phase,
                   moves, probabilities, valid_configs, examined, arrays, self_board,
                   calls, bot>>

NextNeighbors == CallGetNeighbors

SpecNeighbors == InitNeighbors /\ [][NextNeighbors]_vars

----------------------------------------------------------------------------
(* Properties of get_neighbors.                                            *)

InBounds(r, c) == 0 <= r /\ r < rows /\ 0 <= c /\ c < cols

OnBorderRow(r) == r = 0 \/ r = rows - 1
OnBorderCol(c) == c = 0 \/ c = cols - 1

\* C22: for an in-bounds (row, col) get_neighbors returns exactly the
\* in-bounds coordinates at Chebyshev distance 1, never the cell itself;
\* for any other (row, col) it raises instead of returning a set.
C22_NeighborsOrOutOfBounds ==
    pc = "get_neighbors" =>
        IF InBounds(call.row, call.col)
           THEN /\ ~call.raised
                /\ call.neighbors =
                      { x \in Coordinates(rows, cols) :
                          Max(Abs(x[1] - call.row), Abs(x[2] - call.col)) = 1 }
                /\ <<call.row, call.col>> \notin call.neighbors
           ELSE call.raised /\ call.neighbors = {}

\* A negative column beside an in-range row raises.
C22_Witness ==
    /\ pc = "get_neighbors"
    /\ 0 <= call.row /\ call.row < rows
    /\ cols >= 2
    /\ call.col = -1
    /\ call.raised

\* The neighbour count a cell's place on the board asks for.
PlaceCount ==
    IF OnBorderRow(call.row) /\ OnBorderCol(call.col) THEN 3
    ELSE IF OnBorderRow(call.row) \/ OnBorderCol(call.col) THEN 5
    ELSE 8

\* C23 as stated: on a board of any size a corner cell has exactly 3
\* neighbours, an edge cell 5 and an interior cell 8.
C23_NeighborCountsAnySize ==
    (pc = "get_neighbors" /\ InBounds(call.row, call.col)) =>
        Cardinality(call.neighbors) = PlaceCount

\* C23: on a board with at least 2 rows and 2 columns a corner cell has
\* exactly 3 neighbours, an edge (non-corner) cell 5 and an interior cell 8.
C23_NeighborCounts ==
    (pc = "get_neighbors" /\ InBounds(call.row, call.col) /\ rows >= 2 /\ cols >= 2) =>
        Cardinality(call.neighbors) = PlaceCount

\* An edge cell of a board with two rows has its 5 neighbours.
C23_Witness ==
    /\ pc = "get_neighbors"
    /\ rows = 2 /\ cols >= 3
    /\ call.row = 1
    /\ 0 < call.col /\ call.col < cols - 1
    /\ Cardinality(call.neighbors) = 5

----------------------------------------------------------------------------
(* main.py: MinesweeperBot.run, one run of a freshly built bot (as main()  *)
(* makes it).  The window and the mouse are the environment: each capture  *)
(* shows some board, each click succeeds or raises.                        *)

max_moves == 1000

\* The values of the classifier in a faulty variant that also reads a "1".
Classified_and_a_count ==
    {STATE_UNKNOWN, STATE_MINE, STATE_FLAGGED, STATE_COVERED, STATE_UNCOVERED, "1"}

\* The values classify_cell can return.
Classified ==
    {STATE_UNKNOWN, STATE_MINE, STATE_FLAGGED, STATE_COVERED, STATE_UNCOVERED}

\* The states of a reader that also tells a revealed count.
ClassifiedOrCounted == {STATE_COVERED, STATE_MINE, "2"}

\* BoardReader.read_board: an array filled cell by cell with what the
\* classifier returns for the cell's image.
read_board(R, C, reader) ==
    [Coordinates(R, C) -> IF reader = "classify_cell" THEN Classified
                          ELSE ClassifiedOrCounted]

check_game_over(b, R, C) == \E x \in Coordinates(R, C) : b[x] = STATE_MINE

check_win(b, R, C) ==
    Cardinality({ x \in Coordinates(R, C) : b[x] = STATE_COVERED }) = 0

\* The phase in which solve(board) returns.
solve_phase(b, R, C, order) ==
    IF ENABLE_LOGIC_RULES /\ apply_logic_rules(b, R, C, order) # <<>> THEN "Logic"
    ELSE IF /\ ENABLE_PROBABILITY_CALCULATION
            /\ calculate_probabilities(b, R, C, order) # <<>>
            /\ get_safest_cell(calculate_probabilities(b, R, C, order)) # <<>>
         THEN "Probability"
    ELSE "Guess"

\* MinesweeperBot.__init__, with the reader and the board size that
\* initialize() found.
NewBot(reader) ==
    [pc |-> "run", game_over |-> FALSE, win |-> FALSE, move_count |-> 0,
     max_moves |-> max_moves, pending |-> 0, returned |-> "None", reader |-> reader]

InitBotWith(R, C, reader) ==
    /\ board = <<>>
    /\ rows = R
    /\ cols = C
    /\ iterOrder = "asc"
    /\ constraints = <<>>
    /\ max_iterations = MAX_CONFIGURATIONS
    /\ pc = "idle"
    /\ phase = "none"
    /\ moves = <<>>
    /\ probabilities = <<>>
    /\ valid_configs = <<>>
    /\ examined = 0
    /\ arrays = <<>>
    /\ self_board = "None"
    /\ calls = <<>>
    /\ call = <<>>
    /\ bot = NewBot(reader)

BotShape == <<1, 2>>

InitBot == InitBotWith(BotShape[1], BotShape[2], "classify_cell")

\* self.make_first_move()
RunMakeFirstMove ==
    /\ bot.pc = "run"
    /\ bot' = [bot EXCEPT !.move_count = @ + 1, !.pc = "loop"]
    /\ UNCHANGED <<board, rows, cols, iterOrder, constraints, max_iterations, pc, phase,
                   moves, probabilities, valid_configs, examined, arrays, self_board,
                   calls, call>>

\* The test of the while loop.
LoopCondition == ~bot.game_over /\ ~bot.win /\ bot.move_count < bot.max_moves

\* An iteration up to the verdicts, in a faulty variant that checks the win
\* before the game over.
RunReadBoard_win_first ==
    /\ bot.pc = "loop"
    /\ LoopCondition
    /\ board' \in read_board(rows, cols, bot.reader)
    /\ bot' = IF check_win(board', rows, cols)
                 THEN [bot EXCEPT !.win = TRUE, !.returned = "True", !.pc = "returned"]
              ELSE IF check_game_over(board', rows, cols)
                 THEN [bot EXCEPT !.game_over = TRUE, !.returned = "False",
                                  !.pc = "returned"]
              ELSE [bot EXCEPT !.pc = "solve"]
    /\ UNCHANGED <<rows, cols, iterOrder, constraints, max_iterations, pc, phase,
                   moves, probabilities, valid_configs, examined, arrays, self_board,
                   calls, call>>

\* An iteration up to the verdicts: capture, read_board, check_game_over,
\* check_win.
RunReadBoard ==
    /\ bot.pc = "loop"
    /\ LoopCondition
    /\ board' \in read_board(rows, cols, bot.reader)
    /\ bot' = IF check_game_over(board', rows, cols)
                 THEN [bot EXCEPT !.game_over = TRUE, !.returned = "False",
                                  !.pc = "returned"]
              ELSE IF check_win(board', rows, cols)
                 THEN [bot EXCEPT !.win = TRUE, !.returned = "True", !.pc = "returned"]
              ELSE [bot EXCEPT !.pc = "solve"]
    /\ UNCHANGED <<rows, cols, iterOrder, constraints, max_iterations, pc, phase,
                   moves, probabilities, valid_configs, examined, arrays, self_board,
                   calls, call>>

\* moves = self.solver.solve(board); what the call computed is recorded
\* with it.
RunSolve ==
    /\ bot.pc = "solve"
    /\ moves' = solve(board, rows, cols, iterOrder)
    /\ phase' = solve_phase(board, rows, cols, iterOrder)
    /\ constraints' = IF phase' = "Logic" THEN <<>>
                      ELSE build_constraint_set(board, rows, cols)
    /\ probabilities' = IF phase' = "Logic" THEN <<>>
                        ELSE calculate_probabilities(board, rows, cols, iterOrder)
    /\ self_board' = "board"
    /\ bot' = [bot EXCEPT !.pc = "solved"]
    /\ UNCHANGED <<board, rows, cols, iterOrder, max_iterations, pc,
                   valid_configs, examined, arrays, calls, call>>

\* "if not moves: break", else execute_moves begins.
RunBreakOrExecute ==
    /\ bot.pc = "solved"
    /\ bot' = IF moves = <<>> THEN [bot EXCEPT !.pc = "after_loop"]
              ELSE [bot EXCEPT !.pc = "execute_moves", !.pending = 1]
    /\ UNCHANGED <<board, rows, cols, iterOrder, constraints, max_iterations, pc, phase,
                   moves, probabilities, valid_configs, examined, arrays, self_board,
                   calls, call>>

\* One turn of the loop of execute_moves: the click, then move_count += 1.
RunExecuteMove ==
    /\ bot.pc = "execute_moves"
    /\ bot' = [bot EXCEPT !.move_count = @ + 1,
                          !.pending = IF bot.pending = Len(moves) THEN 0 ELSE @ + 1,
                          !.pc = IF bot.pending = Len(moves) THEN "loop" ELSE @]
    /\ UNCHANGED <<board, rows, cols, iterOrder, constraints, max_iterations, pc, phase,
                   moves, probabilities, valid_configs, examined, arrays, self_board,
                   calls, call>>

\* The loop ends without a verdict.
RunLeaveLoop ==
    /\ bot.pc = "loop"
    /\ ~LoopCondition
    /\ bot' = [bot EXCEPT !.pc = "after_loop"]
    /\ UNCHANGED <<board, rows, cols, iterOrder, constraints, max_iterations, pc, phase,
                   moves, probabilities, valid_configs, examined, arrays, self_board,
                   calls, call>>

\* return self.win
RunReturn ==
    /\ bot.pc = "after_loop"
    /\ bot' = [bot EXCEPT !.returned = IF bot.win THEN "True" ELSE "False",
                          !.pc = "returned"]
    /\ UNCHANGED <<board, rows, cols, iterOrder, constraints, max_iterations, pc, phase,
                   moves, probabilities, valid_configs, examined, arrays, self_board,
                   calls, call>>

\* A capture or a click raises; run catches it and returns False.
RunException ==
    /\ bot.pc \in {"run", "loop", "execute_moves"}
    /\ bot' = [bot EXCEPT !.returned = "False", !.pc = "returned"]
    /\ UNCHANGED <<board, rows, cols, iterOrder, constraints, max_iterations, pc, phase,
                   moves, probabilities, valid_configs, examined, arrays, self_board,
                   calls, call>>

NextBot ==
    \/ RunMakeFirstMove
    \/ RunReadBoard
    \/ RunSolve
    \/ RunBreakOrExecute
    \/ RunExecuteMove
    \/ RunLeaveLoop
    \/ RunReturn
    \/ RunException

SpecBot == InitBot /\ [][NextBot]_vars

\* The same run behind a reader that reports revealed counts, which makes
\* the solver return lists of several moves.
CountedShape == <<1, 3>>

InitBotCounted == InitBotWith(CountedShape[1], CountedShape[2], "counted")

SpecBotCounted == InitBotCounted /\ [][NextBot]_vars

----------------------------------------------------------------------------
(* Properties of MinesweeperBot.run.                                       *)

\* C24: every board read_board produces holds only covered, flagged, mine,
\* uncovered or unknown, so inside run the logic phase never returns moves,
\* no constraint is built, and every list the solver returns is a single
\* reveal of the first Covered cell in row-major order.
C24_NumberedLogicUnreachable ==
    /\ board # <<>> =>
          \A x \in Coordinates(rows, cols) :
              board[x] \in {"covered", "flagged", "mine", "uncovered", "unknown"}
    /\ bot.pc = "solved" =>
          /\ phase # "Logic"
          /\ LogicListEmpty
          /\ constraints = <<>>
          /\ Len(moves) = 1
          /\ moves[1][2] = "reveal"
          /\ moves[1][1] \in CoveredCells
          /\ \A y \in CoveredCells :
                moves[1][1][1] < y[1]
                \/ (moves[1][1][1] = y[1] /\ moves[1][1][2] <= y[2])

\* Late in a run the solver is handed a board with a flag before its only
\* Covered cell and reveals that cell.
C24_Witness ==
    /\ bot.pc = "solved"
    /\ bot.move_count > 2
    /\ board[<<0, 0>>] = "flagged"
    /\ board[<<0, 1>>] = "covered"
    /\ moves = << << <<0, 1>>, "reveal" >> >>
    /\ phase = "Probability"

\* C25: run returns True only on a read board without mine and without
\* Covered cell; a read board with a mine makes it return False with
\* game_over set, also when no Covered cell remains; after either verdict
\* the run is over (no solver call, no move); game_over and win are never
\* both True.
C25_Verdicts ==
    /\ bot.returned = "True" =>
          /\ board # <<>>
          /\ \A x \in Coordinates(rows, cols) : board[x] # "mine" /\ board[x] # "covered"
          /\ bot.win /\ ~bot.game_over
    /\ (board # <<>> /\ \E x \in Coordinates(rows, cols) : board[x] = "mine") =>
          /\ bot.game_over /\ ~bot.win
          /\ bot.returned = "False"
    /\ (bot.game_over \/ bot.win) =>
          /\ bot.pc = "returned"
          /\ ~ENABLED NextBot
    /\ ~(bot.game_over /\ bot.win)

\* A board with a mine and no Covered cell is read after some moves: the
\* run is lost, not won.
C25_Witness ==
    /\ bot.pc = "returned"
    /\ bot.move_count > 2
    /\ bot.game_over /\ ~bot.win
    /\ bot.returned = "False"
    /\ board # <<>>
    /\ \E x \in Coordinates(rows, cols) : board[x] = "mine"
    /\ \A x \in Coordinates(rows, cols) : board[x] # "covered"

----------------------------------------------------------------------------
(* Properties of the moves solve returns.                                  *)

\* C26: every move solve returns is on a cell of the board that is Covered
\* in the board given; a flag move is returned by the logic phase only; the
\* probability and the guess phase return no move or one move, a reveal.
C26_MovesOnCoveredCells ==
    pc = "done" =>
        /\ \A i \in 1..Len(moves) :
              /\ moves[i][1] \in Coordinates(rows, cols)
              /\ board[moves[i][1]] = "covered"
              /\ moves[i][2] \in {"flag", "reveal"}
              /\ moves[i][2] = "flag" => phase = "Logic"
        /\ phase \in {"Probability", "Guess"} =>
              /\ Len(moves) <= 1
              /\ \A i \in 1..Len(moves) : moves[i][2] = "reveal"

\* solve has returned logic moves of both kinds on a board with a Flagged
\* cell next to a numbered one.
C26_Witness ==
    /\ pc = "done"
    /\ phase = "Logic"
    /\ \E i \in 1..Len(moves) : moves[i][2] = "flag"
    /\ \E i \in 1..Len(moves) : moves[i][2] = "reveal"
    /\ \E x \in Coordinates(rows, cols) : IsNumber(board[x]) /\ FlaggedAround(x) # {}

\* C27: with both phases enabled, solve returns at least one move for every
\* board with a Covered cell and never reaches the guess phase on it; the
\* guess phase is entered only on boards without a Covered cell and then
\* returns the empty list.
C27_CoveredCellGivesMove ==
    /\ (ENABLE_LOGIC_RULES /\ ENABLE_PROBABILITY_CALCULATION) =>
          /\ (pc = "done" /\ CoveredCells # {}) =>
                moves # <<>> /\ phase \in {"Logic", "Probability"}
          /\ pc = "GuessPhase" => CoveredCells = {}
          /\ (pc = "done" /\ phase = "Guess") => moves = <<>>

\* solve has returned the probability phase's move on a board whose
\* constraints no configuration satisfies: the logic phase found nothing and
\* the uniform fallback gave the map.
C27_Witness ==
    /\ pc = "done"
    /\ phase = "Probability"
    /\ Len(moves) = 1
    /\ CoveredCells # {}
    /\ constraints # <<>>
    /\ valid_configs = <<>>

----------------------------------------------------------------------------
(* Properties of the constraints against the mine placements.              *)

\* Every cell is recognised and none shows an exploded mine.
BoardInPlay ==
    \A x \in Coordinates(rows, cols) :
        board[x] \in {"covered", "flagged"} \/ IsRevealed(board[x])

\* C28: on a board in play that is consistent with a mine placement M
\* holding every Flagged cell, on which the logic phase finds no move and
\* the enumeration is not cut by the budget, the cells of M on the frontier
\* are one of the configurations enumerated from build_constraint_set(board),
\* Flagged neighbours of numbered cells included.  Stated on the small
\* boards with at least one constraint, over every M.
C28_PlacementIsEnumerated ==
    (/\ pc = "calculate_probabilities"
     /\ rows * cols <= MaxCells
     /\ BoardInPlay
     /\ LogicListEmpty
     /\ constraints # <<>>
     /\ Len(valid_configs) < max_iterations) =>
        \A M \in SUBSET Coordinates(rows, cols) :
            ConsistentWith(M) => (M \cap Frontier) \in Returned

----------------------------------------------------------------------------
(* calculate_probabilities under a configured budget: its enumeration is   *)
(* cut at config.MAX_CONFIGURATIONS, drawn here from 1..MaxBudget.         *)

\* calculate_probabilities in a faulty variant that divides the counts by
\* the budget.
calculate_probabilities_over_budget(b, R, C, order, max_configurations) ==
    LET cons == build_constraint_set(b, R, C)
    IN  IF cons = <<>> THEN calculate_simple_probability(b, R, C, <<>>)
        ELSE LET found == enumerate_valid_configurations(cons, max_configurations, order).configs
                 keys  == first_occurrences(cells_met(found, order))
             IN  IF found = <<>> THEN calculate_simple_probability(b, R, C, <<>>)
                 ELSE [i \in 1..Len(keys) |->
                         [cell |-> keys[i],
                          prob |-> Frac(mine_count(found, keys[i]), max_configurations)]]

\* calculate_probabilities(board) with config.MAX_CONFIGURATIONS set to
\* max_configurations.
calculate_probabilities_with(b, R, C, order, max_configurations) ==
    LET cons == build_constraint_set(b, R, C)
    IN  IF cons = <<>> THEN calculate_simple_probability(b, R, C, <<>>)
        ELSE LET found == enumerate_valid_configurations(cons, max_configurations, order).configs
             IN  IF found = <<>> THEN calculate_simple_probability(b, R, C, <<>>)
                 ELSE frequency_map(found, order)

InitBudget ==
    /\ \E x \in WideBoards : board = x.cells /\ rows = x.rows /\ cols = x.cols
    /\ iterOrder \in IterOrders
    /\ constraints = <<>>
    /\ max_iterations \in 1..MaxBudget
    /\ pc = "idle"
    /\ phase = "none"
    /\ moves = <<>>
    /\ probabilities = <<>>
    /\ valid_configs = <<>>
    /\ examined = 0
    /\ arrays = <<>>
    /\ self_board = "None"
    /\ calls = <<>>
    /\ call = <<>>
    /\ bot = <<>>

\* probabilities = calculate_probabilities(board); the constraints it built
\* and the configurations it enumerated are recorded with it.
CallCalculateProbabilitiesWith ==
    /\ pc = "idle"
    /\ constraints' = build_constraint_set(board, rows, cols)
    /\ LET found == enumerate_valid_configurations(constraints', max_iterations, iterOrder)
       IN  /\ valid_configs' = found.configs
           /\ examined' = found.examined
    /\ probabilities' =
          calculate_probabilities_with(board, rows, cols, iterOrder, max_iterations)
    /\ pc' = "calculate_probabilities"
    /\ UNCHANGED <<call, bot>>
    /\ UNCHANGED <<arrays, self_board, calls>>
    /\ UNCHANGED <<board, rows, cols, iterOrder, max_iterations, phase, moves>>

NextBudget == CallCalculateProbabilitiesWith

SpecBudget == InitBudget /\ [][NextBudget]_vars

\* The count the map's value for the cell stands for: the numerator of its
\* entry, 0 for a cell absent from the map.
CountOf(cell) ==
    IF \E j \in 1..Len(probabilities) : probabilities[j].cell = cell
       THEN probabilities[CHOOSE j \in 1..Len(probabilities) :
                             probabilities[j].cell = cell].prob.num
       ELSE 0

RECURSIVE SumOfCounts(_)
SumOfCounts(S) ==
    IF S = {} THEN 0
    ELSE LET x == CHOOSE y \in S : TRUE
         IN  CountOf(x) + SumOfCounts(S \ {x})

\* C29: on the enumeration path of calculate_probabilities (some valid
\* configuration was found, the list cut by the budget or not) every value
\* of the map is a count over the number of configurations, and for every
\* constraint the counts of its cells add up to required times the number
\* of configurations: the probabilities of its cells add up to required,
\* cells absent from the map counting 0.
C29_ConstraintSums ==
    (ProbabilitiesReturned /\ valid_configs # <<>>) =>
        /\ \A j \in 1..Len(probabilities) :
              probabilities[j].prob.den = Len(valid_configs)
        /\ \A i \in 1..Len(constraints) :
              SumOfCounts(constraints[i].cells)
                  = constraints[i].required * Len(valid_configs)

\* The budget cut the list short, two constraints differ, and a frontier
\* cell is absent from the map.
C29_Witness ==
    /\ ProbabilitiesReturned
    /\ Len(valid_configs) = max_iterations
    /\ Cardinality(ValidSubsets) > max_iterations
    /\ max_iterations >= 2
    /\ \E i, j \in 1..Len(constraints) : constraints[i].cells # constraints[j].cells
    /\ Frontier \ Keys # {}

====
